---- MODULE Spec2Model ----
(***************************************************************************)
(* The browser client of talk-to-your-repo (frontend/src/App.js,           *)
(* component TalkToRepoApp) together with the HTTP backend it talks to.    *)
(*                                                                         *)
(* The client is a set of React state cells and of asynchronous handlers   *)
(* (processRepo, the status-polling interval callback, sendMessage).  An   *)
(* await in a handler is a point where other handlers may run, so every    *)
(* handler is split at its awaits: one action up to the fetch, one action  *)
(* per way the fetch can end.  A state update is followed by the render    *)
(* and by the effects of that render before the next event is handled.     *)
(* The backend is not part of the sources; it is the Processing State      *)
(* Machine of the design document.                                         *)
(***************************************************************************)
EXTENDS Integers, Sequences, FiniteSets, TLC

\* ------------------------------------------------------------- bounds
MaxSubmits == 2    \* POST /api/repos/process requests issued in one run
MaxPolls   == 2    \* status-poll callbacks in flight at the same time
MaxChunks  == 1    \* chunks a job embeds
MaxSends   == 1    \* chat messages sent in one run of Spec
MaxTurns   == 6    \* chat messages sent in one run of ChatSpec

\* --------------------------------------------------- program constants
HistoryWindow == 5 \* newMessages...slice(-5)
FileCount     == 1 \* files the intake filter keeps for a job

\* ------------------------------------------------------------- values
Null == 0          \* repoId = null, files = null
JobIds == 1..MaxSubmits

SP == " "
Urls  == {<<SP>>, <<"u">>}                   \* what the user types as URL
Texts == {<<>>, <<SP>>, <<"q">>}             \* what the user types as message
Suggestion == <<"q">>                        \* text of a quick-action button
SourceLists == {<<>>, <<"f1">>}              \* data.sources of a chat answer

NonTerminal == {"queued", "processing"}
Terminal    == {"ready", "failed"}

\* repoStatus = null
NoStatus == [repo_id |-> Null, status |-> "null", file_count |-> 0, processed_chunks |-> 0]
\* a slot of the job registry that holds no job yet
NoJob == [status |-> "none", file_count |-> 0, processed_chunks |-> 0]

\* ------------------------------------------------------------ strings
IsSpace(c) == c = SP

RECURSIVE TrimStart(_)
TrimStart(s) ==
    IF s = <<>> THEN <<>>
    ELSE IF IsSpace(Head(s)) THEN TrimStart(Tail(s)) ELSE s

RECURSIVE TrimEnd(_)
TrimEnd(s) ==
    IF s = <<>> THEN <<>>
    ELSE IF IsSpace(s[Len(s)]) THEN TrimEnd(SubSeq(s, 1, Len(s) - 1)) ELSE s

\* String.prototype.trim
Trim(s) == TrimEnd(TrimStart(s))

\* !s.trim(): the empty string is falsy
Blank(s) == Trim(s) = <<>>

\* ----------------------------------------------------------- messages
UserMessage(text) ==
    [message |-> [kind |-> "text", text |-> text, ref |-> 0], isUser |-> TRUE, sources |-> <<>>]

\* "Started processing repository: **name** ..."
StartedNotice(job) ==
    [message |-> [kind |-> "started", text |-> <<>>, ref |-> job], isUser |-> FALSE, sources |-> <<>>]

\* "Failed to process repository. Please check the URL and try again."
FailedNotice ==
    [message |-> [kind |-> "failed", text |-> <<>>, ref |-> 0], isUser |-> FALSE, sources |-> <<>>]

\* "Sorry, I encountered an error. Please try again."
FallbackMessage ==
    [message |-> [kind |-> "fallback", text |-> <<>>, ref |-> 0], isUser |-> FALSE, sources |-> <<>>]

\* an answer whose sources are not those of the response
AnswerMessageFabricated(n, srcs) ==
    [message |-> [kind |-> "answer", text |-> <<>>, ref |-> n], isUser |-> FALSE,
     sources |-> Append(srcs, "f1")]

\* data.response of the n-th answer the backend gave, with data.sources
AnswerMessage(n, srcs) ==
    [message |-> [kind |-> "answer", text |-> <<>>, ref |-> n], isUser |-> FALSE, sources |-> srcs]

\* ------------------------------------------- conversation_history
\* slice(0, n) in place of slice(-n): the first n elements
SliceFirst(s, n) == SubSeq(s, 1, IF Len(s) < n THEN Len(s) ELSE n)

\* Array.prototype.slice(-n): the last n elements, all of them when fewer
SliceLast(s, n) ==
    LET start == IF Len(s) - n > 0 THEN Len(s) - n ELSE 0
    IN  SubSeq(s, start + 1, Len(s))

\* msg => ({ role: msg.isUser ? 'user' : 'assistant', content: msg.message })
Turn(msg) ==
    [role |-> IF msg.isUser THEN "user" ELSE "assistant", content |-> msg.message]

\* msg => !msg.isUser
HistoryFilter(msg) == ~msg.isUser

\* Array.prototype.filter with that predicate
RECURSIVE FilterMessages(_)
FilterMessages(s) ==
    IF s = <<>> THEN <<>>
    ELSE IF HistoryFilter(Head(s)) THEN <<Head(s)>> \o FilterMessages(Tail(s))
         ELSE FilterMessages(Tail(s))

\* newMessages.filter(msg => !msg.isUser).slice(-5).map(...)
ConversationHistory(newMessages) ==
    LET kept == SliceLast(FilterMessages(newMessages), HistoryWindow)
    IN  [i \in 1..Len(kept) |-> Turn(kept[i])]

\* -------------------------------------------------------------- state
VARIABLES
    \* React state of TalkToRepoApp
    repoUrl, repoId, repoStatus, files, messages, currentMessage,
    isLoading, isSending,
    \* TRUE while the interval of the polling effect is set
    interval,
    \* handlers suspended at an await, with the request they wait for
    submits, polls, chats,
    \* number of processRepo requests issued so far
    nSubmits,
    \* backend: the job registry and the chat answers given so far
    jobs, answers,
    \* the handler step taken last, "-" when it needs no name
    lastCall

client == <<repoUrl, repoId, repoStatus, files, messages, currentMessage,
            isLoading, isSending, interval>>
inflight == <<submits, polls, chats, nSubmits>>
server == <<jobs, answers>>
vars == <<client, inflight, server, lastCall>>

\* repoStatus?.status
StatusOf(st) == IF st = NoStatus THEN "undefined" ELSE st.status

\* the polling effect: an interval exists exactly while its condition holds
PollEffect(id, st) == id # Null /\ StatusOf(st) = "processing"

Init ==
    /\ repoUrl = <<>>
    /\ repoId = Null
    /\ repoStatus = NoStatus
    /\ files = Null
    /\ messages = <<>>
    /\ currentMessage = <<>>
    /\ isLoading = FALSE
    /\ isSending = FALSE
    /\ interval = FALSE
    /\ submits = {}
    /\ polls = {}
    /\ chats = {}
    /\ nSubmits = 0
    /\ jobs = [j \in JobIds |-> NoJob]
    /\ answers = <<>>
    /\ lastCall = "-"

\* ------------------------------------------------------------ backend
\* GetJobStatus / the body of the submit response: a snapshot of one job
Snapshot(j) ==
    [repo_id |-> j, status |-> jobs[j].status, file_count |-> jobs[j].file_count,
     processed_chunks |-> jobs[j].processed_chunks]

NextJob == CHOOSE j \in JobIds : jobs[j] = NoJob /\ \A k \in JobIds : k < j => jobs[k] # NoJob

\* SubmitRepository: creates a Job in queued
ServerCreateJob(s) ==
    /\ s \in submits /\ s.job = Null
    /\ \E j \in JobIds : jobs[j] = NoJob
    /\ jobs' = [jobs EXCEPT ![NextJob] = [status |-> "queued", file_count |-> 0, processed_chunks |-> 0]]
    /\ submits' = (submits \ {s}) \cup {[s EXCEPT !.job = NextJob]}
    /\ lastCall' = "-"
    /\ UNCHANGED <<client, polls, chats, nSubmits, answers>>

\* queued -> processing
ServerStart(j) ==
    /\ jobs[j].status = "queued"
    /\ jobs' = [jobs EXCEPT ![j].status = "processing"]
    /\ lastCall' = "-"
    /\ UNCHANGED <<client, inflight, answers>>

\* the intake filter completes: file_count is known
ServerFilter(j) ==
    /\ jobs[j].status = "processing" /\ jobs[j].file_count = 0
    /\ jobs' = [jobs EXCEPT ![j].file_count = FileCount]
    /\ lastCall' = "-"
    /\ UNCHANGED <<client, inflight, answers>>

\* one more chunk embedded and indexed
ServerEmbed(j) ==
    /\ jobs[j].status = "processing" /\ jobs[j].file_count = FileCount
    /\ jobs[j].processed_chunks < MaxChunks
    /\ jobs' = [jobs EXCEPT ![j].processed_chunks = @ + 1]
    /\ lastCall' = "-"
    /\ UNCHANGED <<client, inflight, answers>>

\* processing -> ready, once every included file is chunked and embedded
ServerFinish(j) ==
    /\ jobs[j].status = "processing" /\ jobs[j].file_count = FileCount
    /\ jobs[j].processed_chunks = MaxChunks
    /\ jobs' = [jobs EXCEPT ![j].status = "ready"]
    /\ lastCall' = "-"
    /\ UNCHANGED <<client, inflight, answers>>

\* queued | processing -> failed
ServerFail(j) ==
    /\ jobs[j].status \in NonTerminal
    /\ jobs' = [jobs EXCEPT ![j].status = "failed"]
    /\ lastCall' = "-"
    /\ UNCHANGED <<client, inflight, answers>>

\* ------------------------------------------------- what is rendered
\* {!repoId && ( URL input section )}
FormShown == repoId = Null
\* {repoId && ( main interface )}
ChatShown == repoId # Null
\* Analyze button: disabled={isLoading || !repoUrl.trim()}
AnalyzeDisabled == isLoading \/ Blank(repoUrl)
\* textarea: disabled={repoStatus?.status !== 'ready' || isSending}
TextareaDisabled == StatusOf(repoStatus) # "ready" \/ isSending
\* Send button: disabled={!currentMessage.trim() || repoStatus?.status !== 'ready' || isSending}
SendDisabled == Blank(currentMessage) \/ StatusOf(repoStatus) # "ready" \/ isSending
\* quick-action buttons: disabled={repoStatus?.status !== 'ready'}
QuickActionDisabled == StatusOf(repoStatus) # "ready"

\* ---------------------------------------------------------- processRepo
\* the guard without trim(): only the empty string is rejected
ProcessRepoReturnsNoTrim == repoUrl = <<>>

\* if (!repoUrl.trim()) return;
ProcessRepoReturns == Blank(repoUrl)

\* processRepo up to its fetch
processRepo ==
    IF ProcessRepoReturns
    THEN /\ lastCall' = "processRepo.return"
         /\ UNCHANGED <<client, inflight, server>>
    ELSE /\ nSubmits < MaxSubmits
         /\ isLoading' = TRUE
         /\ nSubmits' = nSubmits + 1
         /\ submits' = submits \cup {[id |-> nSubmits + 1, github_url |-> repoUrl, job |-> Null]}
         /\ lastCall' = "-"
         /\ UNCHANGED <<repoUrl, repoId, repoStatus, files, messages, currentMessage,
                        isSending, interval, polls, chats, server>>

\* onChange of the URL input
SetRepoUrl(u) ==
    /\ FormShown
    /\ repoUrl' = u
    /\ lastCall' = "-"
    /\ UNCHANGED <<repoId, repoStatus, files, messages, currentMessage, isLoading,
                   isSending, interval, inflight, server>>

\* onClick of the Analyze button
ClickAnalyze == FormShown /\ ~AnalyzeDisabled /\ processRepo

\* onKeyPress of the URL input: e.key === 'Enter' && processRepo()
UrlEnter == FormShown /\ processRepo

\* processRepo resumes with response.ok
SubmitOK(s) ==
    /\ s \in submits /\ s.job # Null
    /\ LET data == Snapshot(s.job) IN
         /\ repoId' = data.repo_id
         /\ repoStatus' = data
         /\ messages' = <<StartedNotice(data.repo_id)>>
         /\ interval' = PollEffect(data.repo_id, data)
    /\ isLoading' = FALSE
    /\ submits' = submits \ {s}
    /\ lastCall' = "-"
    /\ UNCHANGED <<repoUrl, files, currentMessage, isSending, polls, chats, nSubmits, server>>

\* the catch block without the finally block: isLoading stays set
SubmitFailNoFinally(s) ==
    /\ s \in submits
    /\ messages' = <<FailedNotice>>
    /\ submits' = submits \ {s}
    /\ lastCall' = "processRepo.catch"
    /\ UNCHANGED <<repoUrl, repoId, repoStatus, files, currentMessage, isLoading, isSending,
                   interval, polls, chats, nSubmits, server>>

\* processRepo resumes with a response that is not ok, or fetch throws
SubmitFail(s) ==
    /\ s \in submits
    /\ messages' = <<FailedNotice>>
    /\ isLoading' = FALSE
    /\ submits' = submits \ {s}
    /\ lastCall' = "processRepo.catch"
    /\ UNCHANGED <<repoUrl, repoId, repoStatus, files, currentMessage, isSending,
                   interval, polls, chats, nSubmits, server>>

\* --------------------------------------------------- status polling
\* the interval fires: the callback starts and fetches the status
PollTick ==
    /\ interval
    /\ Cardinality(polls) < MaxPolls
    /\ polls' = polls \cup {[job |-> repoId, stage |-> "status", snap |-> NoStatus]}
    /\ lastCall' = "-"
    /\ UNCHANGED <<client, submits, chats, nSubmits, server>>

\* the backend answers GET /api/repos/{id}/status
ServerStatus(p) ==
    /\ p \in polls /\ p.stage = "status"
    /\ polls' = (polls \ {p}) \cup {[p EXCEPT !.stage = "statusResponse", !.snap = Snapshot(p.job)]}
    /\ lastCall' = "-"
    /\ UNCHANGED <<client, submits, chats, nSubmits, server>>

\* the callback resumes with response.ok: setRepoStatus(status), and the
\* fetch of the file tree when status.status === 'ready'
StatusOK(p) ==
    /\ p \in polls /\ p.stage = "statusResponse"
    /\ repoStatus' = p.snap
    /\ interval' = PollEffect(repoId, p.snap)
    /\ polls' = IF p.snap.status = "ready"
                THEN (polls \ {p}) \cup {[p EXCEPT !.stage = "files"]}
                ELSE polls \ {p}
    /\ lastCall' = "-"
    /\ UNCHANGED <<repoUrl, repoId, files, messages, currentMessage, isLoading,
                   isSending, submits, chats, nSubmits, server>>

\* the status response is not ok, or fetch throws: nothing is updated
StatusFail(p) ==
    /\ p \in polls /\ p.stage \in {"status", "statusResponse"}
    /\ polls' = polls \ {p}
    /\ lastCall' = "poll.fail"
    /\ UNCHANGED <<client, submits, chats, nSubmits, server>>

\* the callback resumes with filesResponse.ok: setFiles(filesData).  The
\* clearInterval(interval) that follows names the interval this callback
\* belongs to, which the clean-up of the effect has cleared when the render
\* after setRepoStatus(ready) changed repoStatus?.status: it clears nothing.
FilesOK(p) ==
    /\ p \in polls /\ p.stage = "files"
    /\ jobs[p.job].status = "ready"
    /\ files' = p.job
    /\ polls' = polls \ {p}
    /\ lastCall' = "-"
    /\ UNCHANGED <<repoUrl, repoId, repoStatus, messages, currentMessage, isLoading,
                   isSending, interval, submits, chats, nSubmits, server>>

\* filesResponse is not ok, or fetch throws: files keeps its value
FilesFail(p) ==
    /\ p \in polls /\ p.stage = "files"
    /\ polls' = polls \ {p}
    /\ lastCall' = "-"
    /\ UNCHANGED <<client, submits, chats, nSubmits, server>>

\* ---------------------------------------------------------- sendMessage
\* the guard without trim(): only the empty message is rejected
SendMessageReturnsNoTrim ==
    currentMessage = <<>> \/ repoId = Null \/ StatusOf(repoStatus) # "ready"

\* if (!currentMessage.trim() || !repoId || repoStatus?.status !== 'ready') return;
SendMessageReturns ==
    Blank(currentMessage) \/ repoId = Null \/ StatusOf(repoStatus) # "ready"

\* the chat request: body of POST /api/chat
ChatRequest(newMessages) ==
    [repo_id |-> repoId, message |-> currentMessage,
     conversation_history |-> ConversationHistory(newMessages)]

\* sendMessage up to its fetch
sendMessage ==
    IF SendMessageReturns
    THEN /\ lastCall' = "sendMessage.return"
         /\ UNCHANGED <<client, inflight, server>>
    ELSE LET newMessages == Append(messages, UserMessage(currentMessage)) IN
         /\ currentMessage' = <<>>
         /\ isSending' = TRUE
         /\ messages' = newMessages
         /\ chats' = chats \cup {ChatRequest(newMessages)}
         /\ lastCall' = "-"
         /\ UNCHANGED <<repoUrl, repoId, repoStatus, files, isLoading, interval,
                        submits, polls, nSubmits, server>>

\* onChange of the textarea
SetCurrentMessage(t) ==
    /\ ChatShown /\ ~TextareaDisabled
    /\ currentMessage' = t
    /\ lastCall' = "-"
    /\ UNCHANGED <<repoUrl, repoId, repoStatus, files, messages, isLoading, isSending,
                   interval, inflight, server>>

\* onClick of a quick-action button: setCurrentMessage(suggestion)
QuickAction ==
    /\ ChatShown /\ ~QuickActionDisabled
    /\ currentMessage' = Suggestion
    /\ lastCall' = "-"
    /\ UNCHANGED <<repoUrl, repoId, repoStatus, files, messages, isLoading, isSending,
                   interval, inflight, server>>

\* onClick of the Send button
ClickSend == ChatShown /\ ~SendDisabled /\ sendMessage

\* handleKeyPress: Enter without Shift in the textarea
TextareaEnter == ChatShown /\ ~TextareaDisabled /\ sendMessage

\* setMessages(prev => [...prev, { message: data.response, isUser: false, sources: data.sources }])
AfterAnswer(prev, n, srcs) == Append(prev, AnswerMessage(n, srcs))

\* setMessages([...messages, fallback]) with the messages of the closure,
\* which lack the user's message
AfterCatchStale(prev) == Append(SubSeq(prev, 1, Len(prev) - 1), FallbackMessage)

\* setMessages(prev => [...prev, { fallback text, isUser: false, sources: [] }])
AfterCatch(prev) == Append(prev, FallbackMessage)

\* sendMessage resumes with response.ok; the backend answers only for a
\* ready job
ChatOK(c) ==
    /\ c \in chats
    /\ jobs[c.repo_id].status = "ready"
    /\ \E srcs \in SourceLists :
         /\ answers' = Append(answers, srcs)
         /\ messages' = AfterAnswer(messages, Len(answers) + 1, srcs)
    /\ isSending' = FALSE
    /\ chats' = chats \ {c}
    /\ lastCall' = "-"
    /\ UNCHANGED <<repoUrl, repoId, repoStatus, files, currentMessage, isLoading,
                   interval, submits, polls, nSubmits, jobs>>

\* sendMessage resumes with a response that is not ok, or fetch throws
ChatFail(c) ==
    /\ c \in chats
    /\ messages' = AfterCatch(messages)
    /\ isSending' = FALSE
    /\ chats' = chats \ {c}
    /\ lastCall' = "-"
    /\ UNCHANGED <<repoUrl, repoId, repoStatus, files, currentMessage, isLoading,
                   interval, submits, polls, nSubmits, server>>

\* ------------------------------------------------------ specification
\* user messages in the conversation
UserTurns == Cardinality({i \in 1..Len(messages) : messages[i].isUser})

Next ==
    \/ \E u \in Urls : SetRepoUrl(u)
    \/ ClickAnalyze
    \/ UrlEnter
    \/ \E s \in submits : ServerCreateJob(s)
    \/ \E s \in submits : SubmitOK(s)
    \/ \E s \in submits : SubmitFail(s)
    \/ \E j \in JobIds : ServerStart(j)
    \/ \E j \in JobIds : ServerFilter(j)
    \/ \E j \in JobIds : ServerEmbed(j)
    \/ \E j \in JobIds : ServerFinish(j)
    \/ \E j \in JobIds : ServerFail(j)
    \/ PollTick
    \/ \E p \in polls : ServerStatus(p)
    \/ \E p \in polls : StatusOK(p)
    \/ \E p \in polls : StatusFail(p)
    \/ \E p \in polls : FilesOK(p)
    \/ \E p \in polls : FilesFail(p)
    \/ \E t \in Texts : SetCurrentMessage(t)
    \/ QuickAction
    \/ UserTurns < MaxSends /\ ClickSend
    \/ UserTurns < MaxSends /\ TextareaEnter
    \/ \E c \in chats : ChatOK(c)
    \/ \E c \in chats : ChatFail(c)

Spec == Init /\ [][Next]_vars

\* a session whose job is ready and whose file tree is loaded
ChatInit ==
    /\ repoUrl = <<"u">>
    /\ repoId = 1
    /\ repoStatus = [repo_id |-> 1, status |-> "ready", file_count |-> FileCount,
                     processed_chunks |-> MaxChunks]
    /\ files = 1
    /\ messages = <<StartedNotice(1)>>
    /\ currentMessage = <<>>
    /\ isLoading = FALSE
    /\ isSending = FALSE
    /\ interval = FALSE
    /\ submits = {}
    /\ polls = {}
    /\ chats = {}
    /\ nSubmits = 1
    /\ jobs = [j \in JobIds |-> IF j = 1
                 THEN [status |-> "ready", file_count |-> FileCount, processed_chunks |-> MaxChunks]
                 ELSE NoJob]
    /\ answers = <<>>
    /\ lastCall = "-"

\* the conversation alone, from that session on
ChatNext ==
    \/ \E t \in Texts : SetCurrentMessage(t)
    \/ QuickAction
    \/ UserTurns < MaxTurns /\ ClickSend
    \/ UserTurns < MaxTurns /\ TextareaEnter
    \/ \E c \in chats : ChatOK(c)
    \/ \E c \in chats : ChatFail(c)

ChatSpec == ChatInit /\ [][ChatNext]_vars

\* ---------------------------------------------------------------- C1
\* a step of sendMessage: it returned early, or it sent a chat request
SendMessageStep == lastCall' = "sendMessage.return" \/ ~(chats' \subseteq chats)

\* C1: whenever sendMessage runs with repoId null, with a blank message or
\* with repoStatus.status other than 'ready', no POST /api/chat is sent and
\* messages, currentMessage and isSending are left unchanged.
C1_NoChatUnlessReady ==
    [][(SendMessageStep /\ (repoId = Null \/ Blank(currentMessage)
                              \/ StatusOf(repoStatus) # "ready"))
        => UNCHANGED <<chats, messages, currentMessage, isSending>>]_vars

\* sendMessage has returned early on a whitespace-only message
C1_Witness ==
    /\ lastCall = "sendMessage.return"
    /\ currentMessage = <<SP>>
    /\ chats = {}

\* ---------------------------------------------------------------- C9
\* a step of processRepo: it returned early, or it sent a submission
ProcessRepoStep == lastCall' = "processRepo.return" \/ nSubmits' # nSubmits

\* C9: processRepo called with an empty or whitespace-only repoUrl sends no
\* POST /api/repos/process and leaves repoId, repoStatus, messages, files
\* and isLoading unchanged.
C9_BlankUrlRejected ==
    [][(ProcessRepoStep /\ Blank(repoUrl))
        => UNCHANGED <<submits, nSubmits, jobs, repoId, repoStatus, messages, files, isLoading>>]_vars

\* processRepo has returned early on a whitespace-only URL
C9_Witness ==
    /\ lastCall = "processRepo.return"
    /\ repoUrl = <<SP>>
    /\ submits = {}

\* ---------------------------------------------------------------- C2
\* the order of the job lifecycle: queued -> processing -> {ready | failed}
Forward(a, b) ==
    \/ a = b
    \/ a = "queued" /\ b \in {"processing", "ready", "failed"}
    \/ a = "processing" /\ b \in {"ready", "failed"}

\* the backend moves every job forward only and never lowers its counters
ServerMonotonic ==
    [][\A j \in JobIds : jobs[j] # NoJob =>
          /\ Forward(jobs[j].status, jobs'[j].status)
          /\ jobs'[j].file_count >= jobs[j].file_count
          /\ jobs'[j].processed_chunks >= jobs[j].processed_chunks]_vars

\* C2: for every interleaving of status polls and their responses, the
\* snapshot held in repoStatus never moves backward for a job: its status
\* only moves forward and processed_chunks and file_count never decrease.
C2_SnapshotMonotonic ==
    [][(repoStatus # NoStatus /\ repoStatus' # NoStatus
          /\ repoStatus'.repo_id = repoStatus.repo_id)
        => /\ Forward(repoStatus.status, repoStatus'.status)
           /\ repoStatus'.file_count >= repoStatus.file_count
           /\ repoStatus'.processed_chunks >= repoStatus.processed_chunks]_vars

\* ---------------------------------------------------------------- C3
\* some handler is still scheduled or suspended that can update repoStatus
StatusUpdatePending == interval \/ polls # {} \/ submits # {}

\* C3: after a successful submission the client keeps polling until it
\* observes a terminal status, whatever non-terminal status the submit
\* response carried: while repoStatus.status is queued or processing, a
\* status poll is scheduled or in flight.
C3_PollsUntilTerminal ==
    (repoId # Null /\ StatusOf(repoStatus) \in NonTerminal) => StatusUpdatePending

\* ---------------------------------------------------------------- C4
\* C4: whenever repoStatus.status is 'ready' and files is still null, the
\* file tree is on its way: a handler that requests it is scheduled or in
\* flight, so the client is never left with status = ready and files = null.
C4_FileTreeOnceReady ==
    (StatusOf(repoStatus) = "ready" /\ files = Null) => StatusUpdatePending

\* --------------------------------------------------------------- C10
\* r is a snapshot the backend can have served for job j up to now
ServedFor(r, j) ==
    /\ r.repo_id = j
    /\ jobs[j] # NoJob
    /\ \/ r = Snapshot(j)
       \/ /\ r.status \in NonTerminal
          /\ Forward(r.status, jobs[j].status)
          /\ r.file_count \in {0, FileCount} /\ r.file_count <= jobs[j].file_count
          /\ r.processed_chunks <= jobs[j].processed_chunks
          /\ r.status = "queued" => (r.file_count = 0 /\ r.processed_chunks = 0)
          /\ r.processed_chunks > 0 => r.file_count = FileCount

\* C10: in every state where repoId and repoStatus are both set, repoStatus
\* is one response of the backend for the job identified by repoId.
C10_StatusOfBoundJob ==
    (repoId # Null /\ repoStatus # NoStatus) => ServedFor(repoStatus, repoId)

\* ---------------------------------------------------------------- C5
\* the turn a message stands for: its role by its author, and its text
TurnOf(m) == [role |-> IF m.isUser THEN "user" ELSE "assistant", content |-> m.message]

TurnsOf(ms) == [i \in 1..Len(ms) |-> TurnOf(ms[i])]

\* a is b with some elements left out
RECURSIVE IsSubsequence(_, _)
IsSubsequence(a, b) ==
    IF a = <<>> THEN TRUE
    ELSE IF b = <<>> THEN FALSE
    ELSE IF Head(a) = Head(b) THEN IsSubsequence(Tail(a), Tail(b))
    ELSE IsSubsequence(a, Tail(b))

\* the most recent n elements of s
MostRecent(s, n) == [i \in 1..(IF Len(s) < n THEN Len(s) ELSE n) |->
                       s[Len(s) - (IF Len(s) < n THEN Len(s) ELSE n) + i]]

\* C5: the conversation_history of every chat request holds every prior
\* message of the session that falls in the history window, written by the
\* user or by the assistant, in chronological order and with its role.
C5_BothRolesInHistory ==
    [][\A c \in chats' \ chats :
          IsSubsequence(TurnsOf(MostRecent(messages, HistoryWindow)),
                        c.conversation_history)]_vars

\* ---------------------------------------------------------------- C6
\* the positions in ms of the messages the client offers as history
Offered(ms) == {i \in 1..Len(ms) : ~ms[i].isUser}

\* of those, the HistoryWindow most recent
Recent(ms) ==
    {i \in Offered(ms) : Cardinality({j \in Offered(ms) : j > i}) < HistoryWindow}

\* the k-th position of a set of positions, in increasing order
KthOf(S, k) == CHOOSE i \in S : Cardinality({j \in S : j < i}) = k - 1

ChatFailStep == chats' # chats /\ chats' \subseteq chats /\ answers' = answers

C8_NoFabricatedSources ==
    \A i \in 1..Len(messages) :
       LET m == messages[i] IN
       IF ~m.isUser /\ m.message.kind = "answer"
       THEN /\ m.message.ref \in 1..Len(answers)
            /\ m.sources = answers[m.message.ref]
       ELSE m.sources = <<>>

\* an answer with a citation is in the list
C8_Witness ==
    \E i \in 1..Len(messages) :
       messages[i].message.kind = "answer" /\ messages[i].sources # <<>>

\* --------------------------------------------------------------- C11
\* a step that issues POST /api/repos/process
SubmitIssued == nSubmits' # nSubmits

\* C11: while a submission is in flight (isLoading true) no step issues a
\* second POST /api/repos/process, and once repoId is set no step changes it
\* or replaces the message list by the notice of a later submit response.
C11_OneJobPerSession ==
    [][/\ isLoading => ~SubmitIssued
       /\ repoId # Null => /\ repoId' = repoId
                           /\ submits' = submits \/ messages' = messages]_vars

\* --------------------------------------------------------------- C12
\* an assistant message that answers a user message
IsReply(m) == ~m.isUser /\ m.message.kind \in {"answer", "fallback"}

\* user messages and replies alternate; a user message at the end of the
\* list is the one whose request is in flight
Alternates ==
    \A i \in 1..Len(messages) :
       /\ messages[i].isUser =>
             IF i = Len(messages) THEN isSending ELSE IsReply(messages[i + 1])
       /\ IsReply(messages[i]) => i > 1 /\ messages[i - 1].isUser

\* a step that starts or ends a chat request appends one message and keeps
\* the others: a user message when no request is in flight, or a reply
OneAppended ==
    chats' # chats =>
       /\ Len(messages') = Len(messages) + 1
       /\ SubSeq(messages', 1, Len(messages)) = messages
       /\ LET m == messages'[Len(messages')] IN
          IF m.isUser
          THEN ~isSending /\ chats = {} /\ Cardinality(chats') = 1
          ELSE IsReply(m) /\ Cardinality(chats) = 1 /\ chats' = {}

\* C12: chat requests are strictly sequential: isSending is true exactly
\* while a chat request is in flight, at most one is in flight, and in the
\* list every user message is followed by exactly one assistant message
\* (answer or fallback) before the next user message, the last user message
\* being the one in flight: no message is lost or duplicated.
C12_ChatSequential ==
    /\ [](isSending <=> chats # {})
    /\ [](Cardinality(chats) <= 1)
    /\ [][OneAppended]_vars
    /\ []Alternates

\* --------------------------------------------------------------- C13
\* a step that starts a status request
StatusRequestStarted == \E p \in polls' \ polls : p.stage = "status"

\* a step on which a status request ends without a usable response
StatusFailStep == lastCall' = "poll.fail"

\* a step that leaves the session with the job it is bound to and with a
\* status of that job
SameJob == repoId' = repoId /\ repoStatus.repo_id = repoId /\ repoStatus'.repo_id = repoId

\* C13: once repoStatus.status is 'ready' or 'failed' the polling interval
\* is cleared, and no step that leaves the session with its job starts a
\* status request or changes repoStatus.status; a status request that fails
\* or is not OK leaves repoStatus, files and messages unchanged and the
\* interval as it was.
C13_TerminalAbsorbing ==
    /\ [](StatusOf(repoStatus) \in Terminal => ~interval)
    /\ [][StatusOf(repoStatus) \in Terminal /\ SameJob =>
             /\ ~StatusRequestStarted
             /\ StatusOf(repoStatus') = StatusOf(repoStatus)]_vars
    /\ [][StatusFailStep =>
             /\ UNCHANGED <<repoStatus, files, messages>>
             /\ interval' = interval]_vars

\* --------------------------------------------------------------- C14
\* a step on which processRepo ends in its catch block
SubmitFailStep == lastCall' = "processRepo.catch"

====
